---- MODULE Spec2Model ----
(***************************************************************************)
(* Request throttling middleware of heketi (middleware/http_throttling.go) *)
(* together with the request-id middleware (middleware/request_id.go).     *)
(*                                                                         *)
(* All methods of ReqLimiter work on the package-level instance tr, so     *)
(* the model has one controller.  Every request is served on its own       *)
(* goroutine; a goroutine is a process of Procs whose position in          *)
(* ServeHTTP is pc[p].  An action is one step between two points where     *)
(* other goroutines can interleave: one lock-protected helper, the         *)
(* unlocked map read of the GET branch, or the downstream handler call.    *)
(***************************************************************************)
EXTENDS Integers, FiniteSets, Sequences, TLC

\* ------------------------------------------------------------- bounds
NumProcs == 2        \* request goroutines that can be in ServeHTTP at once
MaxMaxcount == 2     \* NewHTTPThrottler(count): count ranges over 1..MaxMaxcount
MaxID == 3           \* identifiers that exist; SpecAdmit issues all of them
FullIDs == 2         \* identifiers issued in one run of Spec
MaxTime == 2         \* the clock runs from 0 to MaxTime
CT == 1              \* Cleanup(ct): ticker period and time-to-live, in clock units
NumCallers == 3      \* goroutines that call through one Client
MAX_CONCURRENT_REQUESTS == 2   \* capacity of c.throttle (32 in client.go, kept small)
MaxRetryCount == 3   \* NewClientWithRetry(retryCount): retryCount ranges over 0..MaxRetryCount
MaxPolls == 2        \* pending answers the server gives to one waiting caller
MaxHops == 1         \* redirects the server answers within one send
WaitTime == 1        \* waitForResponseWithTimer(r, waitTime): seconds between polls

\* ---------------------------------------------------- program constants
StatusOK == 200
StatusAccepted == 202
StatusResetContent == 205
StatusTooManyRequests == 429
StatusInternalServerError == 500
MaxInt32 == 2147483647
JitterMin == 10      \* random(10, 40): seconds of back-off after a 429
JitterMax == 40

Procs == 1..NumProcs
Callers == 1..NumCallers
IDs == 1..MaxID
\* Strings that occur as identifiers and path segments are numbered: 0 is the
\* empty string, 1..MaxID are the identifiers GenUUID returns, and negative
\* numbers are the other segment texts.
NoID == 0            \* "" (GetRequestID without a value, an empty path segment)
KindSeg == -1        \* a resource-kind segment such as "queue"
\* Statuses the downstream handler writes for a POST or DELETE, and for a GET.
MutStatuses == {StatusOK, StatusAccepted}
GetStatuses == {StatusOK, StatusResetContent, StatusInternalServerError}

\* A URL path is kept as the sequence of its "/"-separated segments:
\* "/queue/<id>" is <<"", "queue", id>>, "/queue/" is <<"", "queue", "">>.
Paths == {<<NoID, KindSeg>>, <<NoID, KindSeg, NoID>>}
           \cup {<<NoID, KindSeg, i>> : i \in IDs}

VARIABLES
    maxcount,       \* tr.maxcount
    servingCount,   \* tr.servingCount (uint32, kept as its 32-bit pattern)
    reqRecvCount,   \* tr.reqRecvCount (uint32, kept as its 32-bit pattern)
    requestCache,   \* tr.requestCache: identifier -> time recorded
    decs,           \* history: servingCount decrements made for each identifier
    swept,          \* history: identifiers whose record the sweep removed
    now,            \* the clock read by throttleNow() and time.Now()
    nextID,         \* next identifier utils.GenUUID() returns
    pc,             \* position of each request goroutine in ServeHTTP
    ctxID,          \* identifier in the request context (NoID: none)
    urlParts,       \* segments of hr.URL.Path of a GET being served
    hdrPending,     \* hr.Header.Get("X-Pending") = "true" for the request served
    resp,           \* res.Status() of the response (0: nothing written yet)
    respPending,    \* the response carries X-Pending: true
    invoked,        \* next(hw, hr) was called for the request being served
    sweeper,        \* Cleanup goroutine: "off", "running", "stopped"
    sinceTick,      \* clock units since the ticker of Cleanup last fired
    tickReady,      \* a tick is waiting in t.C
    stopper,        \* a caller of Stop: "idle", "sending", "blockedNil"
    crashed,        \* the Go runtime aborted the process
    retryCount,     \* c.retryCount
    throttle,       \* number of values in the channel c.throttle
    cpc,            \* position of each caller: "idle", "loop", "acquire", "send", "sleep", "done"
    op,             \* what the caller runs: "retry" (retryOperationDo), "poll"
                    \* (waitForResponseWithTimer), "hello" (Hello)
    attempt,        \* i of the loop in retryOperationDo
    sends,          \* history: calls of c.httpClient.Do made for the logical call
    sleeps,         \* history: time.Sleep calls made for the logical call
    overloads,      \* history: 429 responses received for the logical call
    polls,          \* history: pending answers received by waitForResponseWithTimer
    sleepFor,       \* seconds of the time.Sleep under way (0: not sleeping)
    hops,           \* redirects followed within the send under way
    reqToken,       \* the send for which the token on req was minted (0: none)
    wireToken,      \* the send for which the token of the last request sent was minted
    result,         \* what the call returned: "none", "response", "err_transport",
                    \* "err_exhausted", "err_server"
    rstatus,        \* status of the last response received (0: none)
    rpending,       \* the last response received carries X-Pending: true
    created         \* history: times the server carried out the call's operation

ctlVars == <<maxcount, servingCount, reqRecvCount, requestCache, decs, swept>>
reqVars == <<pc, ctxID, urlParts, hdrPending, resp, respPending, invoked>>
bgVars == <<sweeper, sinceTick, tickReady, stopper>>
srvVars == <<ctlVars, reqVars, nextID, bgVars, now, crashed>>
cliVars == <<retryCount, throttle, cpc, op, attempt, sends, sleeps, overloads, polls,
             sleepFor, hops, reqToken, wireToken, result, rstatus, rpending, created>>
vars == <<srvVars, cliVars>>

\* ------------------------------------------------------ uint32 counters
\* A uint32 is stored as the signed reading of its 32 bits, so 0 - 1 is -1
\* (0xFFFFFFFF).  Comparison is the unsigned one.
U32Inc(a) == IF a = MaxInt32 THEN -MaxInt32 - 1 ELSE a + 1
U32Dec(a) == IF a = -MaxInt32 - 1 THEN MaxInt32 ELSE a - 1
U32GE(a, b) == IF (a < 0) = (b < 0) THEN a >= b ELSE a < 0
RECURSIVE U32DecBy(_, _)
U32DecBy(a, n) == IF n = 0 THEN a ELSE U32DecBy(U32Dec(a), n - 1)

\* ---------------------------------------------------------- pure helpers
isSuccess(status) == status >= StatusOK /\ status < StatusResetContent

\* strings.TrimRight(path, "/") followed by strings.Split(path, "/"): the
\* trailing empty segments go, but Split of the empty string yields [""].
RECURSIVE TrimRightSplit(_)
TrimRightSplit(parts) ==
    IF Len(parts) > 1 /\ parts[Len(parts)] = NoID
    THEN TrimRightSplit(SubSeq(parts, 1, Len(parts) - 1))
    ELSE parts

\* urlPart[2] of the GET served by p (Go indexes from 0).
PollTarget(p) == TrimRightSplit(urlParts[p])[3]

\* Mutant of reachedMaxRequest: the capacity test is off by one.
reachedMaxRequestOffByOne == U32GE(servingCount, maxcount + 1)
reachedMaxRequest == U32GE(servingCount, maxcount)
reqReceivedcount == U32GE(reqRecvCount, maxcount)

\* The GET branch goes on to look the identifier up (lines 148-149).
ReachesLookup(parts, status) ==
    /\ Len(TrimRightSplit(parts)) >= 3
    /\ (isSuccess(status) \/ status = StatusInternalServerError)

\* Mutant of RecordsJob: the status of the handler is not looked at.
RecordsJobAnyStatus(status, reqID) == reqID # NoID
\* The POST/DELETE branch records the job (lines 121-127).
RecordsJob(status, reqID) == status = StatusAccepted /\ reqID # NoID

\* The poll removes the record it found (line 155).
NotPending(p) == ~hdrPending[p]

\* Mutant of Stale: a record whose age equals the TTL is purged as well.
StaleAtTTL(i) == now - requestCache[i] >= CT

\* A record the sweep removes (line 188).
Stale(i) == now - requestCache[i] > CT

\* ------------------------------------------------------ request_id.go
DevicesSeg == -2     \* "devices"
ResyncSeg == -3      \* "resync"
DeviceSeg == -4      \* the identifier of a device
Methods == {"POST", "DELETE", "GET", "PUT"}

\* The paths of the requests the identifier middleware is shown: the status
\* paths, the device-resync path with and without a trailing "/", and
\* paths that differ from it in one segment or in their length.
IssuerPaths ==
    {<<NoID, KindSeg, i>> : i \in IDs}
      \cup {<<NoID, DevicesSeg, DeviceSeg, ResyncSeg>>,
            <<NoID, DevicesSeg, DeviceSeg, ResyncSeg, NoID>>,
            <<NoID, DevicesSeg, DeviceSeg, ResyncSeg, KindSeg>>,
            <<NoID, KindSeg, DeviceSeg, ResyncSeg>>,
            <<NoID, DevicesSeg, DeviceSeg, KindSeg>>,
            <<NoID, DevicesSeg, DeviceSeg>>}

\* Mutant of IssuesID: every GET is given an identifier.
IssuesIDForEveryGet(method, parts) == method \in {"POST", "DELETE", "GET"}

\* The cases of RequestID.ServeHTTP that call AddRequestID (lines 37-51):
\* POST and DELETE, and a GET whose path has at least four segments with
\* urlPart[1] == "devices" and urlPart[3] == "resync" (Go indexes from 0).
IssuesID(method, parts) ==
    \/ method \in {"POST", "DELETE"}
    \/ /\ method = "GET"
       /\ LET urlPart == TrimRightSplit(parts)
          IN  /\ Len(urlPart) >= 4
              /\ urlPart[2] = DevicesSeg
              /\ urlPart[4] = ResyncSeg

\* utils.GenUUID(): an identifier no earlier call has returned.
GenUUID == nextID

\* ----------------------------------------------------------------- Init
\* NewClientWithRetry(host, user, key, n): the state of a new Client, none
\* of whose methods has been called (client.go lines 51-68).
NewClientWithRetry(n) ==
    /\ retryCount = n
    /\ throttle = 0
    /\ cpc = [c \in Callers |-> "idle"]
    /\ op = [c \in Callers |-> "retry"]
    /\ attempt = [c \in Callers |-> 0]
    /\ sends = [c \in Callers |-> 0]
    /\ sleeps = [c \in Callers |-> 0]
    /\ overloads = [c \in Callers |-> 0]
    /\ polls = [c \in Callers |-> 0]
    /\ sleepFor = [c \in Callers |-> 0]
    /\ hops = [c \in Callers |-> 0]
    /\ reqToken = [c \in Callers |-> 0]
    /\ wireToken = [c \in Callers |-> 0]
    /\ result = [c \in Callers |-> "none"]
    /\ rstatus = [c \in Callers |-> 0]
    /\ rpending = [c \in Callers |-> FALSE]
    /\ created = [c \in Callers |-> 0]

\* NewHTTPThrottler(count): the controller before its first request.
InitThrottler ==
    /\ maxcount \in 1..MaxMaxcount
    /\ servingCount = 0
    /\ reqRecvCount = 0
    /\ requestCache = <<>>
    /\ decs = [i \in IDs |-> 0]
    /\ swept = {}
    /\ now = 0
    /\ nextID = 1
    /\ pc = [p \in Procs |-> "idle"]
    /\ ctxID = [p \in Procs |-> NoID]
    /\ urlParts = [p \in Procs |-> <<>>]
    /\ hdrPending = [p \in Procs |-> FALSE]
    /\ resp = [p \in Procs |-> 0]
    /\ respPending = [p \in Procs |-> FALSE]
    /\ invoked = [p \in Procs |-> FALSE]
    /\ sweeper = "off"
    /\ sinceTick = 0
    /\ tickReady = FALSE
    /\ stopper = "idle"
    /\ crashed = FALSE

\* The server with a client none of whose calls is followed.
Init == InitThrottler /\ NewClientWithRetry(MaxRetryCount)

\* A client made with any retry count, before its first call.
InitClient ==
    /\ InitThrottler
    /\ maxcount = 1
    /\ \E n \in 0..MaxRetryCount : NewClientWithRetry(n)

\* Mutant of LockHeldBy: the lock is taken around the call of next(hw, hr).
LockHeldDuringHandler(q) == pc[q] \in {"m_next", "g_next", "o_next"}
\* Request goroutine q is inside tr.lock.Lock() ... Unlock() between two of
\* its steps.  Every helper unlocks before it returns (lines 40-83) and
\* ServeHTTP takes the lock nowhere else, so this is never the case.
LockHeldBy(q) == FALSE

\* tr.lock.Lock() succeeds for p: no other request goroutine holds the lock.
LockFree(p) == \A q \in Procs \ {p} : ~LockHeldBy(q)

\* ServeHTTP returns: the goroutine is free for the next request.
Leave(p) ==
    /\ pc' = [pc EXCEPT ![p] = "idle"]
    /\ ctxID' = [ctxID EXCEPT ![p] = NoID]
    /\ urlParts' = [urlParts EXCEPT ![p] = <<>>]
    /\ hdrPending' = [hdrPending EXCEPT ![p] = FALSE]
    /\ resp' = [resp EXCEPT ![p] = 0]
    /\ respPending' = [respPending EXCEPT ![p] = FALSE]
    /\ invoked' = [invoked EXCEPT ![p] = FALSE]

\* ------------------------------------------------- POST / DELETE branch
\* A POST or DELETE arrives.  The request-id middleware, when it runs before
\* the throttle, has put a fresh identifier into the context; then
\* incRecvCount (line 108).
\* limit: the identifiers the run may still issue.
MutStart(p, limit) ==
    /\ ~crashed
    /\ LockFree(p)
    /\ pc[p] = "idle"
    /\ \E method \in {"POST", "DELETE"} :
       \E issued \in BOOLEAN :
          /\ issued => nextID <= limit
          /\ ctxID' = [ctxID EXCEPT ![p] = IF issued THEN nextID ELSE NoID]
          /\ nextID' = IF issued THEN nextID + 1 ELSE nextID
    /\ reqRecvCount' = U32Inc(reqRecvCount)
    /\ pc' = [pc EXCEPT ![p] = "m_check1"]
    /\ UNCHANGED <<maxcount, servingCount, requestCache, decs, swept>>
    /\ UNCHANGED <<urlParts, hdrPending, resp, respPending, invoked>>
    /\ UNCHANGED <<bgVars, now, crashed>>
    /\ UNCHANGED cliVars

\* http.Error(hw, ..., StatusTooManyRequests) (line 134).
Reject(p) ==
    /\ resp' = [resp EXCEPT ![p] = StatusTooManyRequests]
    /\ pc' = [pc EXCEPT ![p] = "m_dec"]
    /\ UNCHANGED invoked

\* !tr.reachedMaxRequest() (line 111, left operand).
MutCheckServing(p) ==
    /\ ~crashed
    /\ LockFree(p)
    /\ pc[p] = "m_check1"
    /\ IF reachedMaxRequest
       THEN Reject(p)
       ELSE /\ pc' = [pc EXCEPT ![p] = "m_check2"]
            /\ UNCHANGED <<resp, invoked>>
    /\ UNCHANGED <<ctlVars, ctxID, urlParts, hdrPending, respPending>>
    /\ UNCHANGED <<nextID, bgVars, now, crashed>>
    /\ UNCHANGED cliVars

\* !tr.reqReceivedcount() (line 111, right operand), then next(hw, hr) is
\* entered (line 113).
MutCheckRecv(p) ==
    /\ ~crashed
    /\ LockFree(p)
    /\ pc[p] = "m_check2"
    /\ IF reqReceivedcount
       THEN Reject(p)
       ELSE /\ pc' = [pc EXCEPT ![p] = "m_next"]
            /\ invoked' = [invoked EXCEPT ![p] = TRUE]
            /\ UNCHANGED resp
    /\ UNCHANGED <<ctlVars, ctxID, urlParts, hdrPending, respPending>>
    /\ UNCHANGED <<nextID, bgVars, now, crashed>>
    /\ UNCHANGED cliVars

\* next(hw, hr) returns (lines 113-131).  ok: hw is a negroni.ResponseWriter.
MutHandlerReturn(p) ==
    /\ ~crashed
    /\ pc[p] = "m_next"
    /\ \E ok \in BOOLEAN, status \in MutStatuses :
          IF ~ok
          THEN Leave(p)
          ELSE /\ resp' = [resp EXCEPT ![p] = status]
               /\ pc' = [pc EXCEPT ![p] =
                            IF RecordsJob(status, ctxID[p]) THEN "m_inc" ELSE "m_dec"]
               /\ UNCHANGED <<ctxID, urlParts, hdrPending, respPending, invoked>>
    /\ UNCHANGED <<ctlVars, nextID, bgVars, now, crashed>>
    /\ UNCHANGED cliVars

\* tr.incRequest(reqID) (lines 54-59, called at line 127).
MutIncRequest(p) ==
    /\ ~crashed
    /\ LockFree(p)
    /\ pc[p] = "m_inc"
    /\ requestCache' = [i \in DOMAIN requestCache \cup {ctxID[p]} |->
                           IF i = ctxID[p] THEN now ELSE requestCache[i]]
    /\ servingCount' = U32Inc(servingCount)
    /\ pc' = [pc EXCEPT ![p] = "m_dec"]
    /\ UNCHANGED <<maxcount, reqRecvCount, decs, swept>>
    /\ UNCHANGED <<ctxID, urlParts, hdrPending, resp, respPending, invoked>>
    /\ UNCHANGED <<nextID, bgVars, now, crashed>>
    /\ UNCHANGED cliVars

\* tr.decRecvCount() (lines 78-83, called at line 137), then return.
MutDecRecv(p) ==
    /\ ~crashed
    /\ LockFree(p)
    /\ pc[p] = "m_dec"
    /\ reqRecvCount' = U32Dec(reqRecvCount)
    /\ Leave(p)
    /\ UNCHANGED <<maxcount, servingCount, requestCache, decs, swept>>
    /\ UNCHANGED <<nextID, bgVars, now, crashed>>
    /\ UNCHANGED cliVars

\* Mutant of GetStart: a GET is counted in reqRecvCount like a POST.
GetStartCounted(p) ==
    /\ ~crashed
    /\ pc[p] = "idle"
    /\ \E parts \in Paths, pending \in BOOLEAN :
          /\ urlParts' = [urlParts EXCEPT ![p] = parts]
          /\ hdrPending' = [hdrPending EXCEPT ![p] = pending]
    /\ pc' = [pc EXCEPT ![p] = "g_next"]
    /\ invoked' = [invoked EXCEPT ![p] = TRUE]
    /\ reqRecvCount' = U32Inc(reqRecvCount)
    /\ UNCHANGED <<maxcount, servingCount, requestCache, decs, swept>>
    /\ UNCHANGED <<ctxID, resp, respPending>>
    /\ UNCHANGED <<nextID, bgVars, now, crashed>>
    /\ UNCHANGED cliVars

\* ------------------------------------------------------------ GET branch
\* A GET arrives and next(hw, hr) is entered (line 140).
GetStart(p) ==
    /\ ~crashed
    /\ pc[p] = "idle"
    /\ \E parts \in Paths, pending \in BOOLEAN :
          /\ urlParts' = [urlParts EXCEPT ![p] = parts]
          /\ hdrPending' = [hdrPending EXCEPT ![p] = pending]
    /\ pc' = [pc EXCEPT ![p] = "g_next"]
    /\ invoked' = [invoked EXCEPT ![p] = TRUE]
    /\ UNCHANGED <<ctlVars, ctxID, resp, respPending>>
    /\ UNCHANGED <<nextID, bgVars, now, crashed>>
    /\ UNCHANGED cliVars

\* next(hw, hr) returns; the path is split and the status examined
\* (lines 140-149).
GetHandlerReturn(p) ==
    /\ ~crashed
    /\ pc[p] = "g_next"
    /\ \E ok \in BOOLEAN, status \in GetStatuses, pending \in BOOLEAN :
          IF ok /\ ReachesLookup(urlParts[p], status)
          THEN /\ resp' = [resp EXCEPT ![p] = status]
               /\ respPending' = [respPending EXCEPT ![p] = pending]
               /\ pc' = [pc EXCEPT ![p] = "g_check"]
               /\ UNCHANGED <<ctxID, urlParts, hdrPending, invoked>>
          ELSE Leave(p)
    /\ UNCHANGED <<ctlVars, nextID, bgVars, now, crashed>>
    /\ UNCHANGED cliVars

\* The lookup tr.requestCache[reqID] and the X-Pending test (lines 151-155).
\* The map is read without the lock.
GetCheck(p) ==
    /\ ~crashed
    /\ pc[p] = "g_check"
    /\ IF PollTarget(p) \in DOMAIN requestCache /\ NotPending(p)
       THEN /\ pc' = [pc EXCEPT ![p] = "g_dec"]
            /\ UNCHANGED <<ctxID, urlParts, hdrPending, resp, respPending, invoked>>
       ELSE Leave(p)
    /\ UNCHANGED <<ctlVars, nextID, bgVars, now, crashed>>
    /\ UNCHANGED cliVars

\* Another goroutine is about to write tr.requestCache.
MapWriterPending(p) ==
    \/ \E q \in Procs \ {p} : pc[q] \in {"m_inc", "g_dec"}
    \/ /\ sweeper = "running"
       /\ tickReady
       /\ \E i \in DOMAIN requestCache : Stale(i)

\* The unlocked lookup of line 153 overlaps a write of the map: the Go
\* runtime may stop the process ("concurrent map read and map write").
GetCheckRace(p) ==
    /\ ~crashed
    /\ pc[p] = "g_check"
    /\ MapWriterPending(p)
    /\ crashed' = TRUE
    /\ UNCHANGED <<ctlVars, reqVars, nextID, bgVars, now>>
    /\ UNCHANGED cliVars

\* tr.decRequest(reqID) (lines 62-68, called at line 157), then return.
GetDecRequest(p) ==
    /\ ~crashed
    /\ LockFree(p)
    /\ pc[p] = "g_dec"
    /\ requestCache' = [i \in DOMAIN requestCache \ {PollTarget(p)} |-> requestCache[i]]
    /\ servingCount' = U32Dec(servingCount)
    /\ decs' = [decs EXCEPT ![PollTarget(p)] = @ + 1]
    /\ Leave(p)
    /\ UNCHANGED <<maxcount, reqRecvCount, swept>>
    /\ UNCHANGED <<nextID, bgVars, now, crashed>>
    /\ UNCHANGED cliVars

\* ------------------------------------------------------- other methods
\* Any other method: next(hw, hr) (line 166).
OtherStart(p) ==
    /\ ~crashed
    /\ pc[p] = "idle"
    /\ pc' = [pc EXCEPT ![p] = "o_next"]
    /\ invoked' = [invoked EXCEPT ![p] = TRUE]
    /\ UNCHANGED <<ctlVars, ctxID, urlParts, hdrPending, resp, respPending>>
    /\ UNCHANGED <<nextID, bgVars, now, crashed>>
    /\ UNCHANGED cliVars

OtherReturn(p) ==
    /\ ~crashed
    /\ pc[p] = "o_next"
    /\ Leave(p)
    /\ UNCHANGED <<ctlVars, nextID, bgVars, now, crashed>>
    /\ UNCHANGED cliVars

\* ----------------------------------------------------- Cleanup and Stop
\* go tr.Cleanup(ct): the ticker and the stop channel are made
\* (lines 173-175).
CleanupStart ==
    /\ ~crashed
    /\ sweeper = "off"
    /\ sweeper' = "running"
    /\ sinceTick' = 0
    /\ tickReady' = FALSE
    /\ UNCHANGED <<ctlVars, reqVars, nextID, stopper, now, crashed>>
    /\ UNCHANGED cliVars

\* Time passes; a running ticker fires every CT units into t.C, which holds
\* one tick.
AdvanceTime ==
    /\ ~crashed
    /\ now < MaxTime
    /\ now' = now + 1
    /\ IF sweeper = "running"
       THEN /\ sinceTick' = (sinceTick + 1) % CT
            /\ tickReady' = (tickReady \/ sinceTick + 1 = CT)
       ELSE UNCHANGED <<sinceTick, tickReady>>
    /\ UNCHANGED <<ctlVars, reqVars, nextID, sweeper, stopper, crashed>>
    /\ UNCHANGED cliVars

\* case <-t.C: the sweep under the lock (lines 183-193).
Sweep ==
    /\ ~crashed
    /\ \A q \in Procs : ~LockHeldBy(q)
    /\ sweeper = "running"
    /\ tickReady
    /\ LET stale == {i \in DOMAIN requestCache : Stale(i)}
       IN /\ requestCache' = [i \in DOMAIN requestCache \ stale |-> requestCache[i]]
          /\ servingCount' = U32DecBy(servingCount, Cardinality(stale))
          /\ decs' = [i \in IDs |-> IF i \in stale THEN decs[i] + 1 ELSE decs[i]]
          /\ swept' = swept \cup stale
    /\ tickReady' = FALSE
    /\ UNCHANGED <<maxcount, reqRecvCount>>
    /\ UNCHANGED <<reqVars, nextID, sweeper, sinceTick, stopper, now, crashed>>
    /\ UNCHANGED cliVars

\* Mutant of StopCall: Cleanup closes the stop channel when it returns, and a
\* send on a closed channel panics.
StopCallOnClosed ==
    /\ ~crashed
    /\ stopper = "idle"
    /\ stopper' = IF sweeper = "off" THEN "blockedNil" ELSE "sending"
    /\ crashed' = (sweeper = "stopped")
    /\ UNCHANGED <<ctlVars, reqVars, nextID, sweeper, sinceTick, tickReady, now>>
    /\ UNCHANGED cliVars

\* Stop() reaches tr.stop <- true (line 200).  Before Cleanup has run tr.stop
\* is nil, and a send on a nil channel blocks for ever.
StopCall ==
    /\ ~crashed
    /\ stopper = "idle"
    /\ stopper' = IF sweeper = "off" THEN "blockedNil" ELSE "sending"
    /\ UNCHANGED <<ctlVars, reqVars, nextID, sweeper, sinceTick, tickReady, now, crashed>>
    /\ UNCHANGED cliVars

\* case <-stop: Cleanup receives the value and returns; Stop returns
\* (lines 180-181, 200).
StopRecv ==
    /\ ~crashed
    /\ sweeper = "running"
    /\ stopper = "sending"
    /\ sweeper' = "stopped"
    /\ stopper' = "idle"
    /\ tickReady' = FALSE
    /\ UNCHANGED <<ctlVars, reqVars, nextID, sinceTick, now, crashed>>
    /\ UNCHANGED cliVars

Next ==
    \/ \E p \in Procs : MutStart(p, FullIDs)
    \/ \E p \in Procs : MutCheckServing(p)
    \/ \E p \in Procs : MutCheckRecv(p)
    \/ \E p \in Procs : MutHandlerReturn(p)
    \/ \E p \in Procs : MutIncRequest(p)
    \/ \E p \in Procs : MutDecRecv(p)
    \/ \E p \in Procs : GetStart(p)
    \/ \E p \in Procs : GetHandlerReturn(p)
    \/ \E p \in Procs : GetCheck(p)
    \/ \E p \in Procs : GetCheckRace(p)
    \/ \E p \in Procs : GetDecRequest(p)
    \/ \E p \in Procs : OtherStart(p)
    \/ \E p \in Procs : OtherReturn(p)
    \/ CleanupStart
    \/ AdvanceTime
    \/ Sweep

\* Requests, time and the sweep.  A stopped sweep behaves, for the requests,
\* like one whose ticks no longer come, so Stop is left to SpecAll.
Spec == Init /\ [][Next]_vars

NextAll ==
    \/ Next
    \/ StopCall
    \/ StopRecv

SpecAll == Init /\ [][NextAll]_vars

\* Requests of every method, without the sweep: time stands still.
NextRequests ==
    \/ \E p \in Procs : MutStart(p, FullIDs)
    \/ \E p \in Procs : MutCheckServing(p)
    \/ \E p \in Procs : MutCheckRecv(p)
    \/ \E p \in Procs : MutHandlerReturn(p)
    \/ \E p \in Procs : MutIncRequest(p)
    \/ \E p \in Procs : MutDecRecv(p)
    \/ \E p \in Procs : GetStart(p)
    \/ \E p \in Procs : GetHandlerReturn(p)
    \/ \E p \in Procs : GetCheck(p)
    \/ \E p \in Procs : GetCheckRace(p)
    \/ \E p \in Procs : GetDecRequest(p)
    \/ \E p \in Procs : OtherStart(p)
    \/ \E p \in Procs : OtherReturn(p)

SpecRequests == Init /\ [][NextRequests]_vars

\* Mutating requests alone: no poll, no sweep.
NextAdmit ==
    \/ \E p \in Procs : MutStart(p, MaxID)
    \/ \E p \in Procs : MutCheckServing(p)
    \/ \E p \in Procs : MutCheckRecv(p)
    \/ \E p \in Procs : MutHandlerReturn(p)
    \/ \E p \in Procs : MutIncRequest(p)
    \/ \E p \in Procs : MutDecRecv(p)

SpecAdmit == Init /\ [][NextAdmit]_vars

\* The handler has written the accepted response, with the location of
\* identifier i, to the response writer (inside next, line 113), or the record
\* of i has been in the registry.
Handed(i) ==
    \/ \E q \in Procs : /\ pc[q] \in {"m_inc", "m_dec"}
                        /\ resp[q] = StatusAccepted
                        /\ ctxID[q] = i
    \/ i \in DOMAIN requestCache
    \/ decs[i] > 0

\* A status poll by a caller that follows the location it was given: the
\* poll is for an identifier whose accepted response has been written
\* (lines 113, 140).
GetStartHanded(p) ==
    /\ ~crashed
    /\ pc[p] = "idle"
    /\ \E i \in IDs, pending \in BOOLEAN :
          /\ Handed(i)
          /\ urlParts' = [urlParts EXCEPT ![p] = <<NoID, KindSeg, i>>]
          /\ hdrPending' = [hdrPending EXCEPT ![p] = pending]
    /\ pc' = [pc EXCEPT ![p] = "g_next"]
    /\ invoked' = [invoked EXCEPT ![p] = TRUE]
    /\ UNCHANGED <<ctlVars, ctxID, resp, respPending>>
    /\ UNCHANGED <<nextID, bgVars, now, crashed>>
    /\ UNCHANGED cliVars

\* Mutating requests and the polls of the callers they answered.
NextOrder ==
    \/ \E p \in Procs : MutStart(p, MaxID)
    \/ \E p \in Procs : MutCheckServing(p)
    \/ \E p \in Procs : MutCheckRecv(p)
    \/ \E p \in Procs : MutHandlerReturn(p)
    \/ \E p \in Procs : MutIncRequest(p)
    \/ \E p \in Procs : MutDecRecv(p)
    \/ \E p \in Procs : GetStartHanded(p)
    \/ \E p \in Procs : GetHandlerReturn(p)
    \/ \E p \in Procs : GetCheck(p)
    \/ \E p \in Procs : GetDecRequest(p)

SpecOrder == Init /\ [][NextOrder]_vars

\* Cleanup and Stop next to requests the controller only passes on.
NextStop ==
    \/ \E p \in Procs : OtherStart(p)
    \/ \E p \in Procs : OtherReturn(p)
    \/ CleanupStart
    \/ AdvanceTime
    \/ Sweep
    \/ StopCall
    \/ StopRecv

SpecStop == Init /\ [][NextStop]_vars

\* The sweeper goroutine keeps being scheduled: a tick that is ready is
\* served and a value offered on the stop channel is received (the select of
\* lines 179-194); the handlers return.  Nothing obliges the application to
\* call Cleanup or Stop.
SpecStopFair ==
    /\ Init
    /\ [][NextStop]_vars
    /\ \A p \in Procs : WF_vars(OtherReturn(p))
    /\ WF_vars(Sweep)
    /\ WF_vars(StopRecv)

\* Mutating requests, the polls of the callers they answered, time and the
\* sweep.
NextSweep ==
    \/ \E p \in Procs : MutStart(p, FullIDs)
    \/ \E p \in Procs : MutCheckServing(p)
    \/ \E p \in Procs : MutCheckRecv(p)
    \/ \E p \in Procs : MutHandlerReturn(p)
    \/ \E p \in Procs : MutIncRequest(p)
    \/ \E p \in Procs : MutDecRecv(p)
    \/ \E p \in Procs : GetStartHanded(p)
    \/ \E p \in Procs : GetHandlerReturn(p)
    \/ \E p \in Procs : GetCheck(p)
    \/ \E p \in Procs : GetDecRequest(p)
    \/ CleanupStart
    \/ AdvanceTime
    \/ Sweep

SpecSweep == Init /\ [][NextSweep]_vars

\* RequestID.ServeHTTP (request_id.go lines 35-58) in front of the throttle:
\* AddRequestID puts GenUUID() into the context of the request that goes
\* to next, or the request goes on as it came; next is the throttle's
\* ServeHTTP, which switches on the method (http_throttling.go line 104).
RequestIDServeHTTP(p, limit) ==
    /\ ~crashed
    /\ pc[p] = "idle"
    /\ \E method \in Methods, parts \in IssuerPaths, pending \in BOOLEAN :
          /\ IF IssuesID(method, parts)
             THEN /\ nextID <= limit
                  /\ ctxID' = [ctxID EXCEPT ![p] = GenUUID]
                  /\ nextID' = nextID + 1
             ELSE /\ ctxID' = [ctxID EXCEPT ![p] = NoID]
                  /\ UNCHANGED nextID
          /\ urlParts' = [urlParts EXCEPT ![p] = parts]
          /\ CASE method \in {"POST", "DELETE"} ->
                     /\ LockFree(p)
                     /\ reqRecvCount' = U32Inc(reqRecvCount)
                     /\ pc' = [pc EXCEPT ![p] = "m_check1"]
                     /\ UNCHANGED <<hdrPending, invoked>>
               [] method = "GET" ->
                     /\ hdrPending' = [hdrPending EXCEPT ![p] = pending]
                     /\ pc' = [pc EXCEPT ![p] = "g_next"]
                     /\ invoked' = [invoked EXCEPT ![p] = TRUE]
                     /\ UNCHANGED reqRecvCount
               [] OTHER ->
                     /\ pc' = [pc EXCEPT ![p] = "o_next"]
                     /\ invoked' = [invoked EXCEPT ![p] = TRUE]
                     /\ UNCHANGED <<reqRecvCount, hdrPending>>
    /\ UNCHANGED <<maxcount, servingCount, requestCache, decs, swept>>
    /\ UNCHANGED <<resp, respPending>>
    /\ UNCHANGED <<bgVars, now, crashed>>
    /\ UNCHANGED cliVars

\* Requests of every method that pass the identifier middleware first.
NextIssuer ==
    \/ \E p \in Procs : RequestIDServeHTTP(p, FullIDs)
    \/ \E p \in Procs : MutCheckServing(p)
    \/ \E p \in Procs : MutCheckRecv(p)
    \/ \E p \in Procs : MutHandlerReturn(p)
    \/ \E p \in Procs : MutIncRequest(p)
    \/ \E p \in Procs : MutDecRecv(p)
    \/ \E p \in Procs : GetHandlerReturn(p)
    \/ \E p \in Procs : GetCheck(p)
    \/ \E p \in Procs : GetDecRequest(p)
    \/ \E p \in Procs : OtherReturn(p)

SpecIssuer == Init /\ [][NextIssuer]_vars

\* The ticker of a running sweeper advances while no POST or DELETE is
\* inside ServeHTTP: the handlers are quick against the tick period.
QuietTick ==
    /\ sweeper = "running"
    /\ \A p \in Procs : pc[p] \notin {"m_check1", "m_check2", "m_next", "m_inc", "m_dec"}
    /\ AdvanceTime

\* FullIDs POSTs and DELETEs, each with an identifier, that arrive before the
\* first tick and none afterwards; polls of the jobs they started at any
\* time; and the sweeper.
NextCapacity ==
    \/ \E p \in Procs : now = 0 /\ MutStart(p, FullIDs) /\ ctxID'[p] # NoID
    \/ \E p \in Procs : MutCheckServing(p)
    \/ \E p \in Procs : MutCheckRecv(p)
    \/ \E p \in Procs : MutHandlerReturn(p)
    \/ \E p \in Procs : MutIncRequest(p)
    \/ \E p \in Procs : MutDecRecv(p)
    \/ \E p \in Procs : GetStartHanded(p)
    \/ \E p \in Procs : GetHandlerReturn(p)
    \/ \E p \in Procs : GetCheck(p)
    \/ \E p \in Procs : GetDecRequest(p)
    \/ CleanupStart
    \/ QuietTick
    \/ Sweep

\* Every goroutine that can take its next step takes it, the sweeper is
\* started, time passes and a tick that is ready is served.
SpecCapacityFair ==
    /\ Init
    /\ [][NextCapacity]_vars
    /\ \A p \in Procs : /\ WF_vars(MutCheckServing(p))
                        /\ WF_vars(MutCheckRecv(p))
                        /\ WF_vars(MutHandlerReturn(p))
                        /\ WF_vars(MutIncRequest(p))
                        /\ WF_vars(MutDecRecv(p))
                        /\ WF_vars(GetHandlerReturn(p))
                        /\ WF_vars(GetCheck(p))
                        /\ WF_vars(GetDecRequest(p))
    /\ WF_vars(CleanupStart)
    /\ WF_vars(QuietTick)
    /\ WF_vars(Sweep)

\* ------------------------------------------------------------- client
\* Statuses a caller tells apart in the responses it gets.
ClientStatuses ==
    {StatusOK, StatusAccepted, StatusTooManyRequests, StatusInternalServerError}

\* Mutant of random: the lower bound is not added (rand.Intn(max - min)).
randomWithoutMin(min, max) == 0..(max - min - 1)
\* random(min, max): rand.Intn(max-min) + min, where rand.Intn(n) is any of
\* 0..n-1 (client.go lines 240-242).
random(min, max) == {n + min : n \in 0..(max - min - 1)}

\* Mutant of LoopContinues: the loop test is i <= c.retryCount.
LoopContinuesInclusive(i) == i <= retryCount
\* i < c.retryCount (client.go line 206).
LoopContinues(i) == i < retryCount

\* The calls of other callers that are under way.
Busy(c) == Cardinality({d \in Callers \ {c} : cpc[d] # "idle"})

\* A caller has built and signed its request (as Hello does, lines 78-87)
\* and enters retryOperationDo: i := 0 (lines 204-206).
\* busy: how many other calls may be under way.
RetryStart(c, busy) ==
    /\ cpc[c] = "idle"
    /\ Busy(c) <= busy
    /\ op' = [op EXCEPT ![c] = "retry"]
    /\ attempt' = [attempt EXCEPT ![c] = 0]
    /\ reqToken' = [reqToken EXCEPT ![c] = 1]
    /\ cpc' = [cpc EXCEPT ![c] = "loop"]
    /\ UNCHANGED <<retryCount, throttle, sends, sleeps, overloads, polls>>
    /\ UNCHANGED <<sleepFor, hops, wireToken, result, rstatus, rpending, created>>
    /\ UNCHANGED srvVars

\* The loop test of retryOperationDo (line 206); leaving the loop returns
\* the error of line 237.  The body is set again (line 207), the token on
\* req is left as it is.
RetryLoop(c) ==
    /\ cpc[c] = "loop"
    /\ op[c] = "retry"
    /\ IF LoopContinues(attempt[c])
       THEN /\ cpc' = [cpc EXCEPT ![c] = "acquire"]
            /\ UNCHANGED result
       ELSE /\ cpc' = [cpc EXCEPT ![c] = "done"]
            /\ result' = [result EXCEPT ![c] = "err_exhausted"]
    /\ UNCHANGED <<retryCount, throttle, op, attempt, sends, sleeps, overloads, polls>>
    /\ UNCHANGED <<sleepFor, hops, reqToken, wireToken, rstatus, rpending, created>>
    /\ UNCHANGED srvVars

\* Mutant of ThrottleHasRoom: the channel takes one value more.
ThrottleHasRoomForOneMore == throttle <= MAX_CONCURRENT_REQUESTS
\* A send on c.throttle does not block (lines 60, 104).
ThrottleHasRoom == throttle < MAX_CONCURRENT_REQUESTS

\* do: c.throttle <- true goes through while the channel has room, then
\* c.httpClient.Do(req) sends req with the token it carries (lines 104, 109).
Acquire(c) ==
    /\ cpc[c] = "acquire"
    /\ ThrottleHasRoom
    /\ throttle' = throttle + 1
    /\ sends' = [sends EXCEPT ![c] = @ + 1]
    /\ wireToken' = [wireToken EXCEPT ![c] = reqToken[c]]
    /\ hops' = [hops EXCEPT ![c] = 0]
    /\ cpc' = [cpc EXCEPT ![c] = "send"]
    /\ UNCHANGED <<retryCount, op, attempt, sleeps, overloads, polls>>
    /\ UNCHANGED <<sleepFor, reqToken, result, rstatus, rpending, created>>
    /\ UNCHANGED srvVars

\* Mutant of Release: the receive is not deferred and is skipped when Do
\* returns an error.
ReleaseUnlessError(err) == throttle' = IF err THEN throttle ELSE throttle - 1
\* The deferred <-c.throttle of do runs on every return of c.httpClient.Do,
\* with or without error (lines 105-109).
Release(err) == throttle' = throttle - 1

\* Inside c.httpClient.Do the server answers with a redirect: checkRedirect
\* signs the follow-up request with a new token (lines 115-117).
Redirect(c) ==
    /\ cpc[c] = "send"
    /\ hops[c] < MaxHops
    /\ hops' = [hops EXCEPT ![c] = @ + 1]
    /\ wireToken' = [wireToken EXCEPT ![c] = sends[c]]
    /\ UNCHANGED <<retryCount, throttle, cpc, op, attempt, sends, sleeps, overloads>>
    /\ UNCHANGED <<polls, sleepFor, reqToken, result, rstatus, rpending, created>>
    /\ UNCHANGED srvVars

\* Statuses with which the server reports that it carried the operation out.
SuccessStatuses == {StatusOK, StatusAccepted}

\* Mutant of Retries: a 500 is retried like a 429.
RetriesServerError(status) ==
    status \in {StatusTooManyRequests, StatusInternalServerError}
\* Mutant of Retries: an accepted response is retried as well.
RetriesAccepted(status) == status \in {StatusTooManyRequests, StatusAccepted}
\* The response makes retryOperationDo sleep and go on (line 220).
Retries(status) == status = StatusTooManyRequests

\* c.do returns inside retryOperationDo: the slot is given back (lines
\* 105-107), then the error or the status decides (lines 210-234).
\* carried: the server carried the operation out although the answer was lost.
RetryDoReturn(c) ==
    /\ cpc[c] = "send"
    /\ op[c] = "retry"
    /\ \E err \in BOOLEAN :
          /\ Release(err)
          /\ IF err
             THEN /\ \E carried \in BOOLEAN :
                        created' = [created EXCEPT ![c] = IF carried THEN @ + 1 ELSE @]
                  /\ result' = [result EXCEPT ![c] = "err_transport"]
                  /\ cpc' = [cpc EXCEPT ![c] = "done"]
                  /\ UNCHANGED <<rstatus, overloads, sleeps, sleepFor>>
             ELSE \E status \in ClientStatuses :
                  /\ rstatus' = [rstatus EXCEPT ![c] = status]
                  /\ created' = [created EXCEPT ![c] =
                                    IF status \in SuccessStatuses THEN @ + 1 ELSE @]
                  /\ IF Retries(status)
                     THEN /\ overloads' = [overloads EXCEPT ![c] =
                                              IF status = StatusTooManyRequests
                                              THEN @ + 1 ELSE @]
                          /\ sleeps' = [sleeps EXCEPT ![c] = @ + 1]
                          /\ \E num \in random(JitterMin, JitterMax) :
                                sleepFor' = [sleepFor EXCEPT ![c] = num]
                          /\ cpc' = [cpc EXCEPT ![c] = "sleep"]
                          /\ UNCHANGED result
                     ELSE /\ result' = [result EXCEPT ![c] = "response"]
                          /\ cpc' = [cpc EXCEPT ![c] = "done"]
                          /\ UNCHANGED <<overloads, sleeps, sleepFor>>
    /\ UNCHANGED <<retryCount, op, attempt, sends, polls, hops, reqToken, wireToken>>
    /\ UNCHANGED rpending
    /\ UNCHANGED srvVars

\* time.Sleep is over; continue: i++ (lines 229-230, 206).
RetryWake(c) ==
    /\ cpc[c] = "sleep"
    /\ op[c] = "retry"
    /\ sleepFor' = [sleepFor EXCEPT ![c] = 0]
    /\ attempt' = [attempt EXCEPT ![c] = @ + 1]
    /\ cpc' = [cpc EXCEPT ![c] = "loop"]
    /\ UNCHANGED <<retryCount, throttle, op, sends, sleeps, overloads, polls>>
    /\ UNCHANGED <<hops, reqToken, wireToken, result, rstatus, rpending, created>>
    /\ UNCHANGED srvVars

\* Hello: the GET of /hello is built and signed (lines 76-87).
HelloStart(c) ==
    /\ cpc[c] = "idle"
    /\ op' = [op EXCEPT ![c] = "hello"]
    /\ reqToken' = [reqToken EXCEPT ![c] = 1]
    /\ cpc' = [cpc EXCEPT ![c] = "acquire"]
    /\ UNCHANGED <<retryCount, throttle, attempt, sends, sleeps, overloads, polls>>
    /\ UNCHANGED <<sleepFor, hops, wireToken, result, rstatus, rpending, created>>
    /\ UNCHANGED srvVars

\* c.do returns inside Hello: the slot is given back, then the error or the
\* status decides (lines 90-99).
HelloDoReturn(c) ==
    /\ cpc[c] = "send"
    /\ op[c] = "hello"
    /\ \E err \in BOOLEAN, status \in ClientStatuses :
          /\ Release(err)
          /\ IF err
             THEN /\ result' = [result EXCEPT ![c] = "err_transport"]
                  /\ UNCHANGED rstatus
             ELSE /\ rstatus' = [rstatus EXCEPT ![c] = status]
                  /\ result' = [result EXCEPT ![c] =
                                   IF status # StatusOK THEN "err_server" ELSE "response"]
    /\ cpc' = [cpc EXCEPT ![c] = "done"]
    /\ UNCHANGED <<retryCount, op, attempt, sends, sleeps, overloads, polls>>
    /\ UNCHANGED <<sleepFor, hops, reqToken, wireToken, rpending, created>>
    /\ UNCHANGED srvVars

\* waitForResponseWithTimer is entered with a location: the first GET is
\* built and signed (lines 120-141).
PollStart(c, busy) ==
    /\ cpc[c] = "idle"
    /\ Busy(c) <= busy
    /\ op' = [op EXCEPT ![c] = "poll"]
    /\ reqToken' = [reqToken EXCEPT ![c] = 1]
    /\ cpc' = [cpc EXCEPT ![c] = "acquire"]
    /\ UNCHANGED <<retryCount, throttle, attempt, sends, sleeps, overloads, polls>>
    /\ UNCHANGED <<sleepFor, hops, wireToken, result, rstatus, rpending, created>>
    /\ UNCHANGED srvVars

\* Mutant of PollFails: a pending answer never ends the wait.
PollFailsNever(pending, status) == FALSE
\* A pending answer whose status is not 200 ends the wait with the server's
\* error (lines 149-152).
PollFails(pending, status) == pending /\ status # StatusOK

\* c.do returns inside waitForResponseWithTimer: the slot is given back,
\* then the error, the X-Pending header and the status decide
\* (lines 143-163).  The server answers pending at most MaxPolls times.
PollDoReturn(c) ==
    /\ cpc[c] = "send"
    /\ op[c] = "poll"
    /\ \E err \in BOOLEAN, status \in ClientStatuses, pending \in BOOLEAN :
          /\ (~err /\ pending /\ status = StatusOK) => polls[c] < MaxPolls
          /\ Release(err)
          /\ IF err
             THEN /\ result' = [result EXCEPT ![c] = "err_transport"]
                  /\ cpc' = [cpc EXCEPT ![c] = "done"]
                  /\ UNCHANGED <<rstatus, rpending, polls, sleeps, sleepFor>>
             ELSE /\ rstatus' = [rstatus EXCEPT ![c] = status]
                  /\ rpending' = [rpending EXCEPT ![c] = pending]
                  /\ IF PollFails(pending, status)
                     THEN /\ result' = [result EXCEPT ![c] = "err_server"]
                          /\ cpc' = [cpc EXCEPT ![c] = "done"]
                          /\ UNCHANGED <<polls, sleeps, sleepFor>>
                     ELSE IF pending
                     THEN /\ polls' = [polls EXCEPT ![c] = @ + 1]
                          /\ sleeps' = [sleeps EXCEPT ![c] = @ + 1]
                          /\ sleepFor' = [sleepFor EXCEPT ![c] = WaitTime]
                          /\ cpc' = [cpc EXCEPT ![c] = "sleep"]
                          /\ UNCHANGED result
                     ELSE /\ result' = [result EXCEPT ![c] = "response"]
                          /\ cpc' = [cpc EXCEPT ![c] = "done"]
                          /\ UNCHANGED <<polls, sleeps, sleepFor>>
    /\ UNCHANGED <<retryCount, op, attempt, sends, overloads, hops>>
    /\ UNCHANGED <<reqToken, wireToken, created>>
    /\ UNCHANGED srvVars

\* time.Sleep(waitTime) is over; the next GET is built and signed
\* (lines 156, 129-141).
PollWake(c) ==
    /\ cpc[c] = "sleep"
    /\ op[c] = "poll"
    /\ sleepFor' = [sleepFor EXCEPT ![c] = 0]
    /\ reqToken' = [reqToken EXCEPT ![c] = sends[c] + 1]
    /\ cpc' = [cpc EXCEPT ![c] = "acquire"]
    /\ UNCHANGED <<retryCount, throttle, op, attempt, sends, sleeps, overloads, polls>>
    /\ UNCHANGED <<hops, wireToken, result, rstatus, rpending, created>>
    /\ UNCHANGED srvVars

\* The caller has taken the result; it is free for its next call.
CallReturn(c) ==
    /\ cpc[c] = "done"
    /\ cpc' = [cpc EXCEPT ![c] = "idle"]
    /\ attempt' = [attempt EXCEPT ![c] = 0]
    /\ sends' = [sends EXCEPT ![c] = 0]
    /\ sleeps' = [sleeps EXCEPT ![c] = 0]
    /\ overloads' = [overloads EXCEPT ![c] = 0]
    /\ polls' = [polls EXCEPT ![c] = 0]
    /\ hops' = [hops EXCEPT ![c] = 0]
    /\ reqToken' = [reqToken EXCEPT ![c] = 0]
    /\ wireToken' = [wireToken EXCEPT ![c] = 0]
    /\ result' = [result EXCEPT ![c] = "none"]
    /\ rstatus' = [rstatus EXCEPT ![c] = 0]
    /\ created' = [created EXCEPT ![c] = 0]
    /\ rpending' = [rpending EXCEPT ![c] = FALSE]
    /\ UNCHANGED <<retryCount, throttle, op, sleepFor>>
    /\ UNCHANGED srvVars

\* One call of retryOperationDo at a time.
NextRetry ==
    \/ \E c \in Callers : RetryStart(c, 0)
    \/ \E c \in Callers : RetryLoop(c)
    \/ \E c \in Callers : Acquire(c)
    \/ \E c \in Callers : Redirect(c)
    \/ \E c \in Callers : RetryDoReturn(c)
    \/ \E c \in Callers : RetryWake(c)
    \/ \E c \in Callers : CallReturn(c)

SpecRetry == InitClient /\ [][NextRetry]_vars

\* One call of retryOperationDo at a time, whose goroutine keeps being
\* scheduled and whose every request is answered or fails.
SpecRetryFair ==
    /\ InitClient
    /\ [][NextRetry]_vars
    /\ \A c \in Callers : /\ WF_vars(RetryLoop(c))
                          /\ WF_vars(Acquire(c))
                          /\ WF_vars(RetryDoReturn(c))
                          /\ WF_vars(RetryWake(c))

\* A call of retryOperationDo, or a wait for a job, with one more wait
\* beside it.
NextCalls ==
    \/ \E c \in Callers : RetryStart(c, 0)
    \/ \E c \in Callers : RetryLoop(c)
    \/ \E c \in Callers : RetryDoReturn(c)
    \/ \E c \in Callers : RetryWake(c)
    \/ \E c \in Callers : PollStart(c, 1)
    \/ \E c \in Callers : PollDoReturn(c)
    \/ \E c \in Callers : PollWake(c)
    \/ \E c \in Callers : Acquire(c)
    \/ \E c \in Callers : Redirect(c)
    \/ \E c \in Callers : CallReturn(c)

SpecCalls == InitClient /\ [][NextCalls]_vars

\* Callers of Hello side by side through one Client.
NextHello ==
    \/ \E c \in Callers : HelloStart(c)
    \/ \E c \in Callers : Acquire(c)
    \/ \E c \in Callers : Redirect(c)
    \/ \E c \in Callers : HelloDoReturn(c)
    \/ \E c \in Callers : CallReturn(c)

SpecHello == InitClient /\ [][NextHello]_vars

\* Callers waiting for their jobs side by side through one Client.
NextWait ==
    \/ \E c \in Callers : PollStart(c, NumCallers)
    \/ \E c \in Callers : Acquire(c)
    \/ \E c \in Callers : Redirect(c)
    \/ \E c \in Callers : PollDoReturn(c)
    \/ \E c \in Callers : PollWake(c)
    \/ \E c \in Callers : CallReturn(c)

SpecWait == InitClient /\ [][NextWait]_vars

\* One caller at a time waits for its job.  Its goroutine keeps being
\* scheduled and every request it sends is answered or fails; the job stops
\* reporting pending after MaxPolls answers.
NextWaitOne ==
    \/ \E c \in Callers : PollStart(c, 0)
    \/ \E c \in Callers : Acquire(c)
    \/ \E c \in Callers : Redirect(c)
    \/ \E c \in Callers : PollDoReturn(c)
    \/ \E c \in Callers : PollWake(c)
    \/ \E c \in Callers : CallReturn(c)

SpecWaitFair ==
    /\ InitClient
    /\ [][NextWaitOne]_vars
    /\ \A c \in Callers : /\ WF_vars(Acquire(c))
                          /\ WF_vars(PollDoReturn(c))
                          /\ WF_vars(PollWake(c))

\* ------------------------------------------------------------- claims
MutPCs == {"m_check1", "m_check2", "m_next", "m_inc", "m_dec"}

\* p takes a step of ServeHTTP from position at.
Steps(p, at) == pc[p] = at /\ pc'[p] # at

\* p is turned away by this step: it gets 429 and goes on to decRecvCount
\* without the handler having been called.
Rejected(p) ==
    /\ pc'[p] = "m_dec"
    /\ resp'[p] = StatusTooManyRequests
    /\ ~invoked'[p]

\* C1: a POST or DELETE whose admission test finds servingCount at maxcount,
\* or finds maxcount other requests already counted in reqRecvCount, is
\* answered 429 and its handler is not called; a request answered 429 is not
\* kept for later, it only leaves ServeHTTP.
C1_RejectedAtCapacity ==
    [][\A p \in Procs :
          /\ (Steps(p, "m_check1") /\ U32GE(servingCount, maxcount))
                => Rejected(p)
          /\ (Steps(p, "m_check2") /\ U32GE(U32Dec(reqRecvCount), maxcount))
                => Rejected(p)
          /\ (pc[p] = "m_dec" /\ resp[p] = StatusTooManyRequests)
                => /\ ~invoked[p]
                   /\ pc'[p] \in {"m_dec", "idle"}
                   /\ ctxID[p] \notin DOMAIN requestCache'
       ]_vars

\* C1 witness: a request has been answered 429 at full servingCount while it
\* was the only one counted in reqRecvCount.
C1_Witness ==
    \E p \in Procs :
       /\ pc[p] = "m_dec"
       /\ resp[p] = StatusTooManyRequests
       /\ ~invoked[p]
       /\ servingCount = maxcount
       /\ reqRecvCount = 1
       /\ maxcount > 1

\* C2: a POST or DELETE is admitted whenever, with its own increment counted,
\* reqRecvCount <= maxcount and servingCount < maxcount; it is rejected only
\* if reqRecvCount > maxcount or servingCount >= maxcount.
C2_AdmittedWithinCapacity ==
    [][\A p \in Procs :
          /\ (/\ Steps(p, "m_check2")
              /\ U32GE(maxcount, reqRecvCount)
              /\ ~U32GE(servingCount, maxcount))
                => pc'[p] = "m_next"
          /\ (pc[p] \in {"m_check1", "m_check2"} /\ Rejected(p))
                => \/ ~U32GE(maxcount, reqRecvCount)
                   \/ U32GE(servingCount, maxcount)
       ]_vars

\* C3: servingCount never exceeds maxcount.
C3_ServingWithinMax == U32GE(maxcount, servingCount)

\* The record of identifier i is in the registry.
Tracked(i) == i \in DOMAIN requestCache

\* The poll served by p is past its handler, which answered for the job
\* resource of a tracked identifier with a status that counts as finished
\* (success range or 500).
PollAnswered(p) ==
    /\ pc[p] \in {"g_check", "g_dec"}
    /\ Len(TrimRightSplit(urlParts[p])) >= 3
    /\ (isSuccess(resp[p]) \/ resp[p] = StatusInternalServerError)

\* C4: servingCount equals the number of records in the registry.  Every
\* helper that holds the lock is one step here, so every state lies outside
\* the lock-held mutation.
C4_ServingEqualsRecords == servingCount = Cardinality(DOMAIN requestCache)

\* C5: a poll for a tracked identifier whose response has a success status
\* and carries X-Pending: true leaves the record and servingCount as they are.
C5_PendingPollKeepsRecord ==
    [][\A p \in Procs :
          (/\ PollAnswered(p)
           /\ isSuccess(resp[p])
           /\ respPending[p]
           /\ Tracked(PollTarget(p))
           /\ pc'[p] # pc[p])
             => /\ requestCache' = requestCache
                /\ servingCount' = servingCount
       ]_vars

\* C6: a poll for a tracked identifier whose response carries no pending
\* marker and has a success status or 500 goes on to remove the record; the
\* removal takes exactly that record out and lowers servingCount by one.
C6_FinishedPollRemovesRecord ==
    [][\A p \in Procs :
          /\ (/\ Steps(p, "g_check")
              /\ PollAnswered(p)
              /\ ~respPending[p]
              /\ Tracked(PollTarget(p)))
                => pc'[p] = "g_dec"
          /\ (/\ Steps(p, "g_dec")
              /\ Tracked(PollTarget(p)))
                => /\ DOMAIN requestCache' = DOMAIN requestCache \ {PollTarget(p)}
                   /\ \A i \in DOMAIN requestCache' : requestCache'[i] = requestCache[i]
                   /\ servingCount' = U32Dec(servingCount)
       ]_vars

\* C7: a completion poll for an identifier whose record is already gone
\* changes neither servingCount nor the registry, also when it looked the
\* record up while another poll for the same identifier was still under way.
C7_SecondPollChangesNothing ==
    [][\A p \in Procs :
          (/\ PollAnswered(p)
           /\ ~Tracked(PollTarget(p))
           /\ pc'[p] # pc[p])
             => /\ requestCache' = requestCache
                /\ servingCount' = servingCount
       ]_vars

\* C8: for a record the sweep has removed servingCount was lowered exactly
\* once, whatever polls for the same identifier were under way, and
\* servingCount has not wrapped below zero.
C8_SweptDecrementedOnce ==
    \A i \in swept : (decs[i] = 1 /\ servingCount >= 0)

\* The handler of the request served by p returns with this step, and the
\* status it wrote can be read (hw is a negroni.ResponseWriter).
HandlerReturns(p) == Steps(p, "m_next") /\ pc'[p] # "idle"

\* The step of p puts the record of its identifier into the registry, stamped
\* with the current time, and raises servingCount by one.
InsertsRecord(p) ==
    /\ ctxID[p] \notin DOMAIN requestCache
    /\ DOMAIN requestCache' = DOMAIN requestCache \cup {ctxID[p]}
    /\ requestCache'[ctxID[p]] = now
    /\ \A i \in DOMAIN requestCache : requestCache'[i] = requestCache[i]
    /\ servingCount' = U32Inc(servingCount)

\* The step leaves the registry and servingCount as they are.
KeepsRegistry == requestCache' = requestCache /\ servingCount' = servingCount

\* C9 as claimed: after the handler of an admitted POST or DELETE returns,
\* the record is inserted and servingCount raised by one if and only if the
\* handler reported 202; otherwise both stay as they are.
C9_RecordedIffAccepted ==
    [][\A p \in Procs :
          /\ HandlerReturns(p)
                => /\ (resp'[p] = StatusAccepted) <=> (pc'[p] = "m_inc")
                   /\ KeepsRegistry
          /\ Steps(p, "m_inc") => InsertsRecord(p)
          /\ Steps(p, "m_dec") => KeepsRegistry
       ]_vars

\* C9 amended: the record is inserted and servingCount raised by one if and
\* only if the handler reported 202 through a response writer whose status
\* can be read and the request context carries a non-empty identifier; in
\* every other case, an unreadable response writer included, the registry
\* and servingCount stay as they are.
C9_RecordedIffAcceptedWithID ==
    [][\A p \in Procs :
          /\ HandlerReturns(p)
                => /\ (resp'[p] = StatusAccepted /\ ctxID[p] # NoID)
                         <=> (pc'[p] = "m_inc")
                   /\ KeepsRegistry
          /\ (Steps(p, "m_next") /\ pc'[p] = "idle") => KeepsRegistry
          /\ Steps(p, "m_inc")
                => /\ resp[p] = StatusAccepted
                   /\ ctxID[p] # NoID
                   /\ InsertsRecord(p)
          /\ Steps(p, "m_dec") => KeepsRegistry
       ]_vars

\* C9 witness: the handler reported 202 and the record of the request's
\* identifier is in the registry, stamped and counted.
C9_Witness ==
    \E p \in Procs :
       /\ pc[p] = "m_dec"
       /\ resp[p] = StatusAccepted
       /\ ctxID[p] # NoID
       /\ Tracked(ctxID[p])
       /\ requestCache[ctxID[p]] = now
       /\ servingCount = 1

\* C10: whenever no POST or DELETE is inside ServeHTTP, reqRecvCount is 0.
C10_RecvZeroWhenNoneInside ==
    (\A p \in Procs : pc[p] \notin MutPCs) => reqRecvCount = 0

\* The POST and DELETE requests that are inside ServeHTTP.
InsideMut == {p \in Procs : pc[p] \in MutPCs}

\* C11: reqRecvCount has not wrapped below zero and is never larger than the
\* number of POST and DELETE requests that are inside ServeHTTP.
C11_RecvWithinInside ==
    /\ reqRecvCount >= 0
    /\ reqRecvCount <= Cardinality(InsideMut)

\* C12: whenever the lookup of a status poll is made, the record of the
\* polled identifier has been inserted before (it is in the registry or has
\* been removed from it since): no poll that follows a handed-out location
\* finds the record missing because it is not yet recorded.
C12_RecordedBeforePoll ==
    [][\A p \in Procs :
          Steps(p, "g_check")
             => (Tracked(PollTarget(p)) \/ decs[PollTarget(p)] > 0)
       ]_vars

\* C13: a call of Stop made while no sweeper is running, because Cleanup was
\* never started or has already returned, does not crash the process: the
\* step that reaches the send on tr.stop leaves the process running.
C13_StopDoesNotCrash ==
    [][(stopper' # stopper /\ sweeper # "running") => ~crashed']_vars

\* C13 witness: Stop has been called after the sweeper had been stopped; it
\* sits in its send and the process runs on.
C13_Witness ==
    /\ sweeper = "stopped"
    /\ stopper = "sending"
    /\ ~crashed

\* c.do returns to caller c with this step.
DoReturns(c) == cpc[c] = "send" /\ cpc'[c] # "send"

\* C14: a call of retryOperationDo that got 429 on its first k attempts, with
\* k below retryCount, and another status on attempt k+1 returns that
\* response, having sent k+1 times and slept k times; every sleep lasts at
\* least JitterMin and less than JitterMax seconds.
C14_ReturnsAfterOverloads ==
    [][\A c \in Callers :
          op[c] = "retry" =>
             /\ sleeps'[c] = sleeps[c] + 1
                   => (sleepFor'[c] >= JitterMin /\ sleepFor'[c] < JitterMax)
             /\ (/\ DoReturns(c)
                 /\ result'[c] # "err_transport"
                 /\ rstatus'[c] # StatusTooManyRequests)
                   => /\ cpc'[c] = "done"
                      /\ result'[c] = "response"
                      /\ overloads'[c] < retryCount
                      /\ sends'[c] = overloads'[c] + 1
                      /\ sleeps'[c] = overloads'[c]
       ]_vars

\* C14 witness: a call has returned a 202 after two 429 answers, three sends
\* and two sleeps.
C14_Witness ==
    \E c \in Callers :
       /\ op[c] = "retry"
       /\ cpc[c] = "done"
       /\ result[c] = "response"
       /\ rstatus[c] = StatusAccepted
       /\ overloads[c] = 2
       /\ sends[c] = 3
       /\ sleeps[c] = 2

\* C15: one call of retryOperationDo never sends more than retryCount times;
\* a call all of whose retryCount attempts were answered 429 ends with the
\* error of the exhausted loop and no response, and with retryCount = 0 that
\* error is returned without anything having been sent.
C15_SendsWithinRetryCount ==
    \A c \in Callers :
       op[c] = "retry" =>
          /\ sends[c] <= retryCount
          /\ (cpc[c] = "done" /\ overloads[c] = retryCount)
                => (result[c] = "err_exhausted" /\ sends[c] = retryCount)
          /\ result[c] = "err_exhausted" => overloads[c] = retryCount

\* C15 witness: every one of the MaxRetryCount attempts of a call was
\* answered 429 and the call has ended with the error.
C15_Witness ==
    \E c \in Callers :
       /\ op[c] = "retry"
       /\ cpc[c] = "done"
       /\ result[c] = "err_exhausted"
       /\ retryCount = MaxRetryCount
       /\ sends[c] = retryCount
       /\ overloads[c] = retryCount

\* C16: every request that goes out, the first of a send and the one that
\* follows a redirect, carries a token minted for the send it belongs to: no
\* attempt is sent with the token of an earlier attempt.
C16_TokenMintedPerAttempt ==
    [][\A c \in Callers :
          (/\ cpc'[c] = "send"
           /\ (sends'[c] # sends[c] \/ hops'[c] # hops[c]))
             => wireToken'[c] = sends'[c]
       ]_vars

\* Caller c is inside waitForResponseWithTimer.
Waiting(c) == op[c] = "poll" /\ cpc[c] \in {"acquire", "send", "sleep"}

\* C17: on every answer to a poll the wait decides by the X-Pending header
\* and the status: pending with a status other than 200 ends it with the
\* server's error, pending with 200 makes it sleep waitTime and poll again,
\* not pending ends it with that response; it sleeps and polls as often as
\* the answers are pending, and it ends once an answer is not.
C17_PollerDecides ==
    /\ [][\A c \in Callers :
            /\ (/\ op[c] = "poll"
                /\ DoReturns(c)
                /\ result'[c] # "err_transport")
                  => /\ (rpending'[c] /\ rstatus'[c] # StatusOK)
                           => /\ cpc'[c] = "done"
                              /\ result'[c] = "err_server"
                              /\ sleeps'[c] = sleeps[c]
                     /\ (rpending'[c] /\ rstatus'[c] = StatusOK)
                           => /\ cpc'[c] = "sleep"
                              /\ sleepFor'[c] = WaitTime
                              /\ result'[c] = "none"
                     /\ ~rpending'[c]
                           => /\ cpc'[c] = "done"
                              /\ result'[c] = "response"
                              /\ sleeps'[c] = sleeps[c]
            /\ (op[c] = "poll" /\ cpc[c] = "sleep" /\ cpc'[c] # "sleep")
                  => (cpc'[c] = "acquire" /\ sends'[c] = sends[c])
         ]_vars
    /\ \A c \in Callers : Waiting(c) ~> (cpc[c] = "done")

\* C17 witness: a wait has returned the final response after MaxPolls
\* pending answers and as many sleeps.
C17_Witness ==
    \E c \in Callers :
       /\ op[c] = "poll"
       /\ cpc[c] = "done"
       /\ result[c] = "response"
       /\ ~rpending[c]
       /\ polls[c] = MaxPolls
       /\ sleeps[c] = MaxPolls
       /\ sends[c] = MaxPolls + 1

\* The callers whose c.httpClient.Do is under way.
InFlight == {c \in Callers : cpc[c] = "send"}

\* C18: never more than MAX_CONCURRENT_REQUESTS calls of c.httpClient.Do are
\* under way through one Client, and a caller gets past c.throttle <- true
\* only when fewer than that are under way: while all slots are taken it
\* stays where it is.
C18_AtMostMaxConcurrent ==
    [][/\ Cardinality(InFlight') <= MAX_CONCURRENT_REQUESTS
       /\ \A c \in Callers :
             (cpc[c] = "acquire" /\ cpc'[c] = "send")
                => Cardinality(InFlight) < MAX_CONCURRENT_REQUESTS
      ]_vars

\* C18 witness: all slots are taken and one more caller stands at
\* c.throttle <- true.
C18_Witness ==
    /\ Cardinality(InFlight) = MAX_CONCURRENT_REQUESTS
    /\ \E c \in Callers : cpc[c] = "acquire"

\* Caller c is inside retryOperationDo.
InRetry(c) == op[c] = "retry" /\ cpc[c] \in {"loop", "acquire", "send", "sleep"}

\* What the server has done for a call that has returned a response: the
\* operation was carried out once if the status reports success, not at all
\* otherwise.
CreatedAsAnswered(c) ==
    created[c] = IF rstatus[c] \in SuccessStatuses THEN 1 ELSE 0

TouchesShared(from, to) ==
    \/ from = "idle" /\ to = "m_check1"
    \/ from \in {"m_check1", "m_check2", "m_inc", "m_dec", "g_check", "g_dec"}

\* The step runs inside tr.lock.Lock() ... Unlock(): all of the above but the
\* lookup tr.requestCache[reqID].
UnderLock(from, to) ==
    \/ from = "idle" /\ to = "m_check1"
    \/ from \in {"m_check1", "m_check2", "m_inc", "m_dec", "g_dec"}

\* C20: every step of a request that reads or writes the registry or one of
\* the two counters, the presence check of a poll and the admission tests
\* included, runs under the controller's lock.
C20_SharedStateUnderLock ==
    [][\A p \in Procs :
          (pc'[p] # pc[p] /\ TouchesShared(pc[p], pc'[p]))
             => UnderLock(pc[p], pc'[p])
       ]_vars

\* The downstream handler of the request served by p is running.
InHandler(p) == pc[p] \in {"m_next", "g_next", "o_next"}

C22_SlotsEqualSends ==
    /\ throttle = Cardinality(InFlight)
    /\ (\A c \in Callers : cpc[c] \in {"idle", "loop", "sleep", "done"}) => throttle = 0

\* C22 witness: one caller sleeps after a 429 while another is inside Do; one
\* slot is taken.
C22_Witness ==
    \E c \in Callers, d \in Callers :
       /\ op[c] = "retry"
       /\ cpc[c] = "sleep"
       /\ sleepFor[c] >= JitterMin
       /\ cpc[d] = "send"
       /\ throttle = 1

\* Positions of a request that is neither POST nor DELETE.
PassPCs == {"g_next", "g_check", "g_dec", "o_next"}

\* C23: a request that is neither POST nor DELETE is never turned away: its
\* handler is called when it arrives, once, whatever servingCount and
\* reqRecvCount are, and no step of it changes reqRecvCount; a request that
\* is not a GET either changes neither the registry nor servingCount.
C23_OtherMethodsPass ==
    [][\A p \in Procs :
          /\ (pc[p] = "idle" /\ pc'[p] \in PassPCs)
                => /\ pc'[p] \in {"g_next", "o_next"}
                   /\ ~invoked[p]
                   /\ invoked'[p]
                   /\ reqRecvCount' = reqRecvCount
                   /\ KeepsRegistry
          /\ (pc[p] \in PassPCs /\ pc'[p] # pc[p])
                => /\ invoked[p]
                   /\ pc'[p] \in PassPCs \cup {"idle"}
                   /\ pc'[p] \notin {"g_next", "o_next"}
                   /\ resp'[p] # StatusTooManyRequests
                   /\ reqRecvCount' = reqRecvCount
          /\ (pc[p] = "o_next" /\ pc'[p] # pc[p]) => KeepsRegistry
       ]_vars

\* C23 witness: the handler of a GET is running although servingCount is at
\* maxcount and reqRecvCount is at maxcount as well.
C23_Witness ==
    \E p \in Procs :
       /\ pc[p] = "g_next"
       /\ invoked[p]
       /\ reachedMaxRequest
       /\ reqReceivedcount

\* C24: in retryOperationDo every outcome of a send other than a 429 ends
\* the call with that step, with no sleep and no further send: a response
\* with another status is returned as it is, an error of the transport is
\* returned without a response.
C24_OtherOutcomesEndCall ==
    [][\A c \in Callers :
          op[c] = "retry" =>
             /\ (/\ DoReturns(c)
                 /\ (result'[c] = "err_transport" \/ rstatus'[c] # StatusTooManyRequests))
                   => /\ cpc'[c] = "done"
                      /\ result'[c] \in {"response", "err_transport"}
                      /\ sleeps'[c] = sleeps[c]
                      /\ sleepFor'[c] = 0
                      /\ sends'[c] = sends[c]
                      /\ attempt'[c] = attempt[c]
             /\ (cpc[c] = "done" /\ cpc'[c] # "done")
                   => (cpc'[c] = "idle" /\ sends'[c] = 0)
       ]_vars

\* C24 witness: the second attempt of a call failed in the transport and the
\* call has ended with that error after one sleep.
C24_Witness ==
    \E c \in Callers :
       /\ op[c] = "retry"
       /\ cpc[c] = "done"
       /\ result[c] = "err_transport"
       /\ sends[c] = 2
       /\ sleeps[c] = 1
       /\ retryCount > 2

\* The paths that begin with "/devices/<device>/resync".
ResyncPaths ==
    {<<NoID, DevicesSeg, DeviceSeg, ResyncSeg>>,
     <<NoID, DevicesSeg, DeviceSeg, ResyncSeg, NoID>>,
     <<NoID, DevicesSeg, DeviceSeg, ResyncSeg, KindSeg>>}

\* The identifiers GenUUID has returned so far.
IssuedBefore == 1..(nextID - 1)

\* C25: a request that enters as a POST or DELETE, or as a GET of a
\* device-resync path, carries an identifier when the next handler is
\* entered, one that no earlier request was given and that no other request
\* in flight carries; every other request carries none.  The identifier
\* stays with the request until ServeHTTP returns, and the record the
\* throttle inserts after an accepted response is keyed by it.
C25_IssuerAttachesFreshID ==
    [][\A p \in Procs :
          /\ (pc[p] = "idle" /\ pc'[p] # "idle") =>
                /\ ~invoked[p]
                /\ ctxID'[p] # NoID <=>
                      \/ pc'[p] = "m_check1"
                      \/ pc'[p] = "g_next" /\ urlParts'[p] \in ResyncPaths
                /\ ctxID'[p] # NoID =>
                      /\ ctxID'[p] \notin IssuedBefore
                      /\ \A q \in Procs \ {p} : ctxID'[q] # ctxID'[p]
          /\ (pc[p] # "idle" /\ pc'[p] # "idle") => ctxID'[p] = ctxID[p]
          /\ (pc[p] = "m_inc" /\ pc'[p] # "m_inc") =>
                /\ ctxID[p] # NoID
                /\ ctxID[p] \in DOMAIN requestCache'
                /\ ctxID[p] \notin DOMAIN requestCache
      ]_vars

\* A resync GET carries the second identifier while the first one, given to
\* an accepted POST or DELETE, keys a record of the registry.
C25_Witness ==
    \E p \in Procs :
       /\ pc[p] = "g_next"
       /\ urlParts[p] = <<NoID, DevicesSeg, DeviceSeg, ResyncSeg, NoID>>
       /\ ctxID[p] = 2
       /\ 1 \in DOMAIN requestCache

\* C26: with the sweeper running and no further POST or DELETE arriving,
\* servingCount comes back to 0 with an empty registry and stays there.
C26_CapacityComesBack ==
    <>[](servingCount = 0 /\ requestCache = <<>>)

\* C27: a call of Stop that has reached its send returns, whatever the
\* sweeper's state was when it was called.
C27_StopReturns ==
    (stopper # "idle") ~> (stopper = "idle")

\* A step of the sweeper that serves a tick.
SweepStep == sweeper = "running" /\ tickReady /\ ~tickReady' /\ sweeper' = "running"

\* C28: a tick removes the records older than the TTL and no other: a record
\* whose age is at most the TTL stays with its time; servingCount goes down
\* by one for each record removed and by nothing else; receivedCount, the
\* capacity, the requests in flight and the clock are left as they were.
C28_SweepRemovesOnlyExpired ==
    [][SweepStep =>
          LET removed == DOMAIN requestCache \ DOMAIN requestCache'
          IN  /\ DOMAIN requestCache' \subseteq DOMAIN requestCache
              /\ \A i \in DOMAIN requestCache :
                    IF now - requestCache[i] <= CT
                    THEN i \notin removed /\ requestCache'[i] = requestCache[i]
                    ELSE i \in removed
              /\ servingCount' = U32DecBy(servingCount, Cardinality(removed))
              /\ reqRecvCount' = reqRecvCount
              /\ maxcount' = maxcount
              /\ reqVars' = reqVars
              /\ now' = now
              /\ crashed' = crashed
      ]_vars

\* A tick has been served at a time when one record was older than the TTL
\* and another had exactly the age of the TTL: the first is gone, the second
\* is still there.
C28_Witness ==
    /\ sweeper = "running"
    /\ ~tickReady
    /\ \E i \in swept, j \in DOMAIN requestCache :
          /\ i \notin DOMAIN requestCache
          /\ decs[i] = 1
          /\ now - requestCache[j] = CT

TypeOK ==
    /\ maxcount \in 1..MaxMaxcount
    /\ DOMAIN requestCache \subseteq IDs
    /\ now \in 0..MaxTime
    /\ nextID \in 1..MaxID + 1
    /\ retryCount \in 0..MaxRetryCount
    /\ throttle \in 0..MAX_CONCURRENT_REQUESTS
    /\ \A c \in Callers : sleepFor[c] \in 0..JitterMax

====
